---- MODULE Spec2Model ----
(***************************************************************************)
(* The DLC stock client (App.tsx of dlc-front, and its older copy          *)
(* src/unnamed/part_000): the React component App, its state hooks, its    *)
(* asynchronous operations fetchRefs, fetchItems, onSubmit and disposeItem, *)
(* and the badge classifier.  Each await of the code is a suspension point: *)
(* the part of a handler before an await is one action, the continuation   *)
(* after it another, taken when the HTTP response arrives.  The HTTP server *)
(* is the environment: it answers every request with any response.         *)
(***************************************************************************)
EXTENDS Integers, Sequences, FiniteSets, TLC

(* ------------------------------ bounds -------------------------------- *)
\* user operations (submissions and disposals) started in one run
MaxOps == 2
\* range of expiry dates and of the clock, in days, for the badge
MaxDay == 9

(* ------------------------- values of the program ---------------------- *)
\* string | null of useState<string | null>
NULL == "null"

\* A JSON value as r.json() yields it: an array, or an object that is no
\* array (the body of an error response, {"detail": ...}).
Arr(s) == [t |-> "arr", v |-> s]
ErrObj == [t |-> "obj", v |-> <<>>]
None == [t |-> "none", v |-> <<>>]
IsArr(j) == j.t = "arr"
\* x.length as a condition: undefined on an object, 0 on [] are both falsy
HasLength(j) == IsArr(j) /\ Len(j.v) > 0

\* the two clients
Copies == {"dlc-front", "part_000"}

\* what the server's vocabularies are when it answers 200
CatsVocab == <<"Dairy", "Produce">>
LocsVocab == <<"Fridge", "Pantry">>

\* names the user types, as sequences of characters
NameInputs == {<<>>, <<" ">>, <<" ", "a">>}
DlcInputs == {"", "2024-01-01"}
Outcomes == {"consomme", "perdu"}

\* the ids of the server's items, and the lists GET /items answers with
ItemIds == {1, 2, 3}
Item(k) == [id |-> k]
ItemLists == {<<>>, <<Item(3), Item(1), Item(2)>>}

(* ------------------------------ HTTP ---------------------------------- *)
\* A response: net = the transport delivered it, ok = status 2xx,
\* json = the body parses as JSON, body = the parsed body, text = its text.
Resp(net, ok, json, body, text) ==
  [net |-> net, ok |-> ok, json |-> json, body |-> body, text |-> text]
NetFail == Resp(FALSE, FALSE, FALSE, ErrObj, "")
GetResponses(lists) ==
  {Resp(TRUE, TRUE, TRUE, Arr(l), "") : l \in lists}
    \cup {Resp(TRUE, FALSE, TRUE, ErrObj, "detail"),
          Resp(TRUE, FALSE, FALSE, ErrObj, "Internal Server Error"),
          NetFail}
PostResponses ==
  {Resp(TRUE, TRUE, TRUE, ErrObj, "{}"),
   Resp(TRUE, FALSE, FALSE, ErrObj, ""),
   NetFail}
\* the request failed: transport failure or non-2xx status
Failed(r) == ~r.net \/ ~r.ok

\* fetch(url).then(r => r.json()): the status is not looked at
Fulfilled(v) == [state |-> "fulfilled", value |-> v, reason |-> ""]
Rejected(m) == [state |-> "rejected", value |-> None, reason |-> m]
FetchJson(r) ==
  IF ~r.net THEN Rejected("Failed to fetch")
  ELSE IF ~r.json THEN Rejected("Unexpected token")
  ELSE Fulfilled(r.body)

\* errMsg(e) of the Error values the operations throw
errMsg(e) ==
  IF e.kind = "Error" THEN e.message
  ELSE IF e.kind = "string" THEN e.value
  ELSE "Erreur inconnue"
Error(m) == [kind |-> "Error", message |-> m, value |-> ""]

\* String.prototype.trim on a sequence of characters
RECURSIVE TrimStart(_)
TrimStart(s) ==
  IF s # <<>> /\ Head(s) = " " THEN TrimStart(Tail(s)) ELSE s
RECURSIVE TrimEnd(_)
TrimEnd(s) ==
  IF s # <<>> /\ s[Len(s)] = " " THEN TrimEnd(SubSeq(s, 1, Len(s) - 1)) ELSE s
trim(s) == TrimEnd(TrimStart(s))

(* ------------------------------ state --------------------------------- *)
VARIABLES
  copy,        \* which of the two clients runs
  strictMode,  \* React runs the mount effect twice (development) or once
  mounts,      \* runs of the mount effect so far
  categories, locations, items, loading, form, message, error,
  msgTimers,   \* pending setTimeout(() => setMessage(null), 3000)
  errTimers,   \* pending setTimeout(() => setError(null), 3000)
  refs,        \* the fetchRefs call of each effect run
  lists,       \* the fetchItems call of each effect run
  sub,         \* the onSubmit calls suspended at each of its awaits
  disp,        \* the disposeItem(id, outcome) calls suspended at their await
  unhandled,   \* operations whose promise rejected with nobody catching it
  fetched,     \* ids any GET /items has returned so far
  lastData,    \* what the last fetchItems passed to setItems
  nOps,        \* submissions and disposals started
  dlc, now, shown  \* the badge: an expiry date, the clock, the rendered cell

appVars ==
  <<copy, strictMode, mounts, categories, locations, items, loading, form,
    message, error, msgTimers, errTimers, refs, lists, sub, disp, unhandled,
    fetched, lastData, nOps>>
badgeVars == <<dlc, now, shown>>
vars == <<appVars, badgeVars>>

(* --------------------------- initial state ---------------------------- *)
\* useState({name: "", category: "", perishable: true, dlc: "", location: ""})
InitForm ==
  [name |-> <<>>, category |-> "", perishable |-> TRUE, dlc |-> "",
   location |-> ""]

Effects == 1..2
\* failed: one of the call's two requests has failed (for the claims)
IdleRefs ==
  [pc |-> "idle", cats |-> None, locs |-> None, form |-> InitForm,
   failed |-> FALSE]
\* gone: the ids whose disposal succeeded while this GET /items was under
\* way (for the claims)
IdleList == [pc |-> "idle", gone |-> {}]
NoSub == [post |-> 0, refresh |-> 0, gone |-> {}]
NoDisp == [c \in ItemIds \X Outcomes |-> 0]

AppInit ==
  /\ copy \in Copies
  /\ mounts = 0
  /\ categories = Arr(<<>>)
  /\ locations = Arr(<<>>)
  /\ items = Arr(<<>>)
  /\ loading = FALSE
  /\ form = InitForm
  /\ message = NULL
  /\ error = NULL
  /\ msgTimers = 0
  /\ errTimers = 0
  /\ refs = [m \in Effects |-> IdleRefs]
  /\ lists = [m \in Effects |-> IdleList]
  /\ sub = NoSub
  /\ disp = NoDisp
  /\ unhandled = {}
  /\ fetched = {}
  /\ lastData = None
  /\ nOps = 0

(* ------------------------------ helpers ------------------------------- *)
\* the render throws (categories.map, locations.map, items.map is not a
\* function) once a state that must be an array is not one: with no error
\* boundary React unmounts the whole view
Crashed == ~(IsArr(categories) /\ IsArr(locations) /\ IsArr(items))

\* the mount effect has run as often as React runs it
EffectRuns == IF strictMode THEN 2 ELSE 1
Mounted == mounts = EffectRuns

Ids(j) == IF IsArr(j) THEN {j.v[i].id : i \in 1..Len(j.v)} ELSE {}
Options(j) == IF IsArr(j) THEN {j.v[i] : i \in 1..Len(j.v)} ELSE {}

\* setTimeout(..., 3000) after a feedback message is set (dlc-front only)
Scheduled(n) == IF copy = "dlc-front" THEN n + 1 ELSE n

\* prev.filter((it) => it.id !== id)
RECURSIVE FilterOut(_, _)
FilterOut(s, k) ==
  IF s = <<>> THEN <<>>
  ELSE IF Head(s).id # k THEN <<Head(s)>> \o FilterOut(Tail(s), k)
  ELSE FilterOut(Tail(s), k)

(* ------------------------------ startup ------------------------------- *)
\* useEffect(() => { void fetchRefs(); void fetchItems(); }, []): both calls
\* run to their first await; fetchRefs closes over the form of this render
Mount ==
  /\ mounts < EffectRuns
  /\ mounts' = mounts + 1
  /\ refs' = [refs EXCEPT ![mounts + 1] =
                [pc |-> "await", cats |-> None, locs |-> None, form |-> form,
                 failed |-> FALSE]]
  /\ lists' = [lists EXCEPT ![mounts + 1] = [pc |-> "await", gone |-> {}]]
  /\ UNCHANGED <<copy, strictMode, categories, locations, items, loading,
                 form, message, error, msgTimers, errTimers, sub, disp,
                 unhandled, fetched, lastData, nOps, badgeVars>>

\* if (!form.category && cats.length) setForm(f => ({...f, category: cats[0]}))
\* if (!form.location && locs.length) setForm(f => ({...f, location: locs[0]}))
\* where form is the one the call closed over and f the current one
seedForm(closed, f, cats, locs) ==
  LET f1 == IF closed.category = "" /\ HasLength(cats)
            THEN [f EXCEPT !.category = cats.v[1]] ELSE f
  IN IF closed.location = "" /\ HasLength(locs)
     THEN [f1 EXCEPT !.location = locs.v[1]] ELSE f1

\* One of the two requests of fetchRefs settles.  Promise.all rejects with
\* the first rejection, and nothing catches it; it fulfils when both have,
\* and the rest of fetchRefs then runs.
FetchRefsSettle(m, which, r) ==
  LET p == FetchJson(r)
      c == [refs[m] EXCEPT ![which] = p.value, !.failed = @ \/ Failed(r)]
  IN /\ Mounted /\ ~Crashed
     /\ refs[m].pc = "await"
     /\ refs[m][which].t = "none"
     /\ IF p.state = "rejected"
        THEN /\ refs' = [refs EXCEPT ![m].pc = "rejected", ![m].failed = TRUE]
             /\ unhandled' = unhandled \cup {"fetchRefs"}
             /\ UNCHANGED <<categories, locations, form>>
        ELSE IF c.cats.t = "none" \/ c.locs.t = "none"
        THEN /\ refs' = [refs EXCEPT ![m] = c]
             /\ UNCHANGED <<categories, locations, form, unhandled>>
        ELSE /\ refs' = [refs EXCEPT ![m] = [c EXCEPT !.pc = "done"]]
             /\ categories' = c.cats
             /\ locations' = c.locs
             /\ form' = seedForm(refs[m].form, form, c.cats, c.locs)
             /\ UNCHANGED unhandled
     /\ UNCHANGED <<copy, strictMode, mounts, items, loading, message, error,
                    msgTimers, errTimers, lists, sub, disp, fetched,
                    lastData, nOps, badgeVars>>

\* The GET /items of a startup fetchItems settles: setItems(data), or the
\* promise of `void fetchItems()` rejects with nobody catching it.
FetchItemsSettle(m, r) ==
  LET p == FetchJson(r)
  IN /\ Mounted /\ ~Crashed
     /\ lists[m].pc = "await"
     /\ IF p.state = "rejected"
        THEN /\ lists' = [lists EXCEPT ![m] = [pc |-> "rejected", gone |-> {}]]
             /\ unhandled' = unhandled \cup {"fetchItems"}
             /\ UNCHANGED <<items, fetched, lastData>>
        ELSE /\ lists' = [lists EXCEPT ![m] = [pc |-> "done", gone |-> {}]]
             /\ items' = p.value
             /\ fetched' = fetched \cup Ids(p.value)
             /\ lastData' = p.value
             /\ UNCHANGED unhandled
     /\ UNCHANGED <<copy, strictMode, mounts, categories, locations, loading,
                    form, message, error, msgTimers, errTimers, refs, sub,
                    disp, nOps, badgeVars>>

(* ----------------------------- the form -------------------------------- *)
\* onChange={(e) => setForm({...form, <field>: e.target.value})}
SetName(n) ==
  /\ Mounted /\ ~Crashed
  /\ n # form.name
  /\ form' = [form EXCEPT !.name = n]
  /\ UNCHANGED <<copy, strictMode, mounts, categories, locations, items,
                 loading, message, error, msgTimers, errTimers, refs, lists,
                 sub, disp, unhandled, fetched, lastData, nOps,
                 badgeVars>>

SetDlc(d) ==
  /\ Mounted /\ ~Crashed
  /\ d # form.dlc
  /\ form' = [form EXCEPT !.dlc = d]
  /\ UNCHANGED <<copy, strictMode, mounts, categories, locations, items,
                 loading, message, error, msgTimers, errTimers, refs, lists,
                 sub, disp, unhandled, fetched, lastData, nOps,
                 badgeVars>>

SetPerishable(b) ==
  /\ Mounted /\ ~Crashed
  /\ b # form.perishable
  /\ form' = [form EXCEPT !.perishable = b]
  /\ UNCHANGED <<copy, strictMode, mounts, categories, locations, items,
                 loading, message, error, msgTimers, errTimers, refs, lists,
                 sub, disp, unhandled, fetched, lastData, nOps,
                 badgeVars>>

\* the <select> offers categories.map(c => <option value={c}>)
SetCategory(c) ==
  /\ Mounted /\ ~Crashed
  /\ c \in Options(categories)
  /\ c # form.category
  /\ form' = [form EXCEPT !.category = c]
  /\ UNCHANGED <<copy, strictMode, mounts, categories, locations, items,
                 loading, message, error, msgTimers, errTimers, refs, lists,
                 sub, disp, unhandled, fetched, lastData, nOps,
                 badgeVars>>

SetLocation(l) ==
  /\ Mounted /\ ~Crashed
  /\ l \in Options(locations)
  /\ l # form.location
  /\ form' = [form EXCEPT !.location = l]
  /\ UNCHANGED <<copy, strictMode, mounts, categories, locations, items,
                 loading, message, error, msgTimers, errTimers, refs, lists,
                 sub, disp, unhandled, fetched, lastData, nOps,
                 badgeVars>>

(* ----------------------------- onSubmit ------------------------------- *)
\* if (!form.name.trim()) throw new Error("Nom requis");
\* if (!form.dlc) throw new Error("DLC requise");   ("" when nothing is thrown)
\* validate without the trim
validateNoTrim(f) ==
  IF f.name = <<>> THEN "Nom requis"
  ELSE IF f.dlc = "" THEN "DLC requise"
  ELSE ""

validate(f) ==
  IF trim(f.name) = <<>> THEN "Nom requis"
  ELSE IF f.dlc = "" THEN "DLC requise"
  ELSE ""

\* a submit button that is never disabled
neverDisabled == FALSE

\* <button disabled={loading}>: the form cannot be submitted while loading
submitDisabled == loading

\* t || "Erreur API"
apiError(t) == IF t = "" THEN "Erreur API" ELSE t

\* what a fetch whose response is r throws in onSubmit and disposeItem
\* ("" when it throws nothing): the transport's TypeError, or the non-ok body
thrownBy(r) ==
  IF ~r.net THEN "Failed to fetch"
  ELSE IF ~r.ok THEN apiError(r.text)
  ELSE ""

\* onSubmit up to its first await, or to its end when validation throws:
\* setLoading(true); setMessage(null); setError(null); validate; fetch(POST)
OnSubmit ==
  /\ Mounted /\ ~Crashed
  /\ ~submitDisabled
  /\ nOps < MaxOps
  /\ nOps' = nOps + 1
  /\ message' = NULL
  /\ IF validate(form) # ""
     THEN /\ error' = errMsg(Error(validate(form)))
          /\ errTimers' = Scheduled(errTimers)
          /\ loading' = FALSE
          /\ UNCHANGED sub
     ELSE /\ error' = NULL
          /\ loading' = TRUE
          /\ sub' = [sub EXCEPT !.post = @ + 1]
          /\ UNCHANGED errTimers
  /\ UNCHANGED <<copy, strictMode, mounts, categories, locations, items, form,
                 msgTimers, refs, lists, disp, unhandled, fetched, lastData,
                 badgeVars>>

\* a reset to the initial form instead of clearing the two fields
resetAll(f) == InitForm

\* the form after setForm((f) => ({...f, name: "", dlc: ""}))
resetForm(f) == [f EXCEPT !.name = <<>>, !.dlc = ""]

\* The POST /items settles.  Not ok, or no response: catch, finally.  Ok:
\* setMessage, setTimeout, setForm, and fetchItems() up to its await.
SubmitPostSettle(r) ==
  /\ Mounted /\ ~Crashed
  /\ sub.post > 0
  /\ IF thrownBy(r) # ""
     THEN /\ error' = errMsg(Error(thrownBy(r)))
          /\ errTimers' = Scheduled(errTimers)
          /\ loading' = FALSE
          /\ sub' = [sub EXCEPT !.post = @ - 1]
          /\ UNCHANGED <<message, msgTimers, form>>
     ELSE /\ message' = "Article ajoute"
          /\ msgTimers' = Scheduled(msgTimers)
          /\ form' = resetForm(form)
          /\ sub' = [sub EXCEPT !.post = @ - 1, !.refresh = @ + 1]
          /\ UNCHANGED <<error, errTimers, loading>>
  /\ UNCHANGED <<copy, strictMode, mounts, categories, locations, items, refs,
                 lists, disp, unhandled, fetched, lastData, nOps, badgeVars>>

\* The GET /items of `await fetchItems()` in onSubmit settles: setItems(data)
\* and finally, or catch and finally.
SubmitRefreshSettle(r) ==
  LET p == FetchJson(r)
  IN /\ Mounted /\ ~Crashed
     /\ sub.refresh > 0
     /\ sub' = [sub EXCEPT !.refresh = @ - 1, !.gone = {}]
     /\ loading' = FALSE
     /\ IF p.state = "rejected"
        THEN /\ error' = errMsg(Error(p.reason))
             /\ errTimers' = Scheduled(errTimers)
             /\ UNCHANGED <<items, fetched, lastData>>
        ELSE /\ items' = p.value
             /\ fetched' = fetched \cup Ids(p.value)
             /\ lastData' = p.value
             /\ UNCHANGED <<error, errTimers>>
     /\ UNCHANGED <<copy, strictMode, mounts, categories, locations, form,
                    message, msgTimers, refs, lists, disp, unhandled,                     nOps, badgeVars>>

(* ---------------------------- disposeItem ----------------------------- *)
\* outcome === "consomme" ? "Marque consomme" : "Marque perdu"
disposeMessage(o) == IF o = "consomme" THEN "Marque consomme" ELSE "Marque perdu"

\* a click on a row's button: disposeItem(it.id, outcome) up to its await
DisposeItem(k, o) ==
  /\ Mounted /\ ~Crashed
  /\ nOps < MaxOps
  /\ k \in Ids(items)
  /\ nOps' = nOps + 1
  /\ message' = NULL
  /\ error' = NULL
  /\ disp' = [disp EXCEPT ![<<k, o>>] = @ + 1]
  /\ UNCHANGED <<copy, strictMode, mounts, categories, locations, items,
                 loading, form, msgTimers, errTimers, refs, lists, sub,
                 unhandled, fetched, lastData, badgeVars>>

\* the filter with its test inverted: it.id === id
prunedInverted(prev, k) == Arr(SelectSeq(prev.v, LAMBDA it : it.id = k))
\* the removal of the first row instead of the row of the id
prunedFirst(prev, k) == Arr(IF prev.v = <<>> THEN <<>> ELSE Tail(prev.v))

\* the list after setItems((prev) => prev.filter((it) => it.id !== id))
pruned(prev, k) == Arr(FilterOut(prev.v, k))

\* The POST /items/{id}/dispose settles.
DisposeSettle(k, o, r) ==
  /\ Mounted /\ ~Crashed
  /\ disp[<<k, o>>] > 0
  /\ disp' = [disp EXCEPT ![<<k, o>>] = @ - 1]
  /\ IF thrownBy(r) # ""
     THEN /\ error' = errMsg(Error(thrownBy(r)))
          /\ errTimers' = Scheduled(errTimers)
          /\ UNCHANGED <<items, message, msgTimers, lists, sub>>
     ELSE /\ items' = pruned(items, k)
          /\ message' = disposeMessage(o)
          /\ msgTimers' = Scheduled(msgTimers)
          /\ lists' = [m \in Effects |->
                         IF lists[m].pc = "await"
                         THEN [lists[m] EXCEPT !.gone = @ \cup {k}]
                         ELSE lists[m]]
          /\ sub' = IF sub.refresh > 0
                    THEN [sub EXCEPT !.gone = @ \cup {k}] ELSE sub
          /\ UNCHANGED <<error, errTimers>>
  /\ UNCHANGED <<copy, strictMode, mounts, categories, locations, loading,
                 form, refs, unhandled, fetched, lastData, nOps, badgeVars>>

(* ------------------------------ timers -------------------------------- *)
\* a setTimeout(() => setMessage(null), 3000) fires
MessageTimeout ==
  /\ ~Crashed
  /\ msgTimers > 0
  /\ msgTimers' = msgTimers - 1
  /\ message' = NULL
  /\ UNCHANGED <<copy, strictMode, mounts, categories, locations, items,
                 loading, form, error, errTimers, refs, lists, sub, disp,
                 unhandled, fetched, lastData, nOps, badgeVars>>

\* a setTimeout(() => setError(null), 3000) fires
ErrorTimeout ==
  /\ ~Crashed
  /\ errTimers > 0
  /\ errTimers' = errTimers - 1
  /\ error' = NULL
  /\ UNCHANGED <<copy, strictMode, mounts, categories, locations, items,
                 loading, form, message, msgTimers, refs, lists, sub, disp,
                 unhandled, fetched, lastData, nOps, badgeVars>>

(* ------------------------------ the badge ----------------------------- *)
\* The clock counts half days; an expiry date "YYYY-MM-DD" is the midnight
\* that starts its day.
\* dayjs(dlc).diff(dayjs(), "day"): the difference in days, cut towards zero
dayDiff(d, n) ==
  LET h == 2 * d - n
  IN IF h >= 0 THEN h \div 2 ELSE -((-h) \div 2)

\* badge with the critical tier ending a day early
badgeOffByOne(diff) ==
  IF diff < 0 THEN "bg-red-600 text-white"
  ELSE IF diff < 3 THEN "bg-red-500 text-white"
  ELSE IF diff <= 7 THEN "bg-yellow-400 text-black"
  ELSE "bg-green-500 text-white"

badge(diff) ==
  IF diff < 0 THEN "bg-red-600 text-white"
  ELSE IF diff <= 3 THEN "bg-red-500 text-white"
  ELSE IF diff <= 7 THEN "bg-yellow-400 text-black"
  ELSE "bg-green-500 text-white"

\* {diff < 0 ? "Expire" : `${diff} j`}
cellText(diff) ==
  IF diff < 0 THEN [label |-> "Expire", n |-> 0] ELSE [label |-> "j", n |-> diff]

\* <span className={`dlc-badge ${badge(it.dlc)}`}>{...}</span> of a row
cell(d, n) ==
  [diff |-> dayDiff(d, n), class |-> badge(dayDiff(d, n)),
   text |-> cellText(dayDiff(d, n))]

BadgeInit ==
  /\ dlc \in 0..MaxDay
  /\ now = 0
  /\ shown = cell(dlc, now)

\* half a day passes and the table is rendered again
Tick ==
  /\ now < 2 * (MaxDay + 2)
  /\ now' = now + 1
  /\ shown' = cell(dlc, now')
  /\ UNCHANGED <<dlc, appVars>>

(* --------------------------- specifications --------------------------- *)
\* the mount effect and the settling of the loads it starts; the server's
\* vocabularies are full, or full or empty when `partial`
Prefixes(v) == {SubSeq(v, 1, n) : n \in {0, Len(v)}}
Answers(v, partial) == GetResponses(IF partial THEN Prefixes(v) ELSE {v})
Startup(partial) ==
  \/ Mount
  \/ \E m \in Effects, which \in {"cats", "locs"} :
       \E r \in Answers(IF which = "cats" THEN CatsVocab ELSE LocsVocab,
                         partial) :
         FetchRefsSettle(m, which, r)
  \/ \E m \in Effects, r \in GetResponses(ItemLists) : FetchItemsSettle(m, r)

\* the user types a name or picks a date: the fields onSubmit validates
EditRequired ==
  \/ \E n \in NameInputs : SetName(n)
  \/ \E d \in DlcInputs : SetDlc(d)

\* the user changes a field that onSubmit only passes on to the server
EditOther ==
  \/ \E b \in BOOLEAN : SetPerishable(b)
  \/ \E c \in Options(Arr(CatsVocab)) : SetCategory(c)
  \/ \E l \in Options(Arr(LocsVocab)) : SetLocation(l)

Submission ==
  \/ OnSubmit
  \/ \E r \in PostResponses : SubmitPostSettle(r)
  \/ \E r \in GetResponses(ItemLists) : SubmitRefreshSettle(r)

Disposal ==
  \/ \E k \in ItemIds, o \in Outcomes : DisposeItem(k, o)
  \/ \E k \in ItemIds, o \in Outcomes, r \in PostResponses :
       DisposeSettle(k, o, r)

Timers == MessageTimeout \/ ErrorTimeout

BadgeIdle == dlc = 0 /\ now = 0 /\ shown = cell(0, 0)

\* The production build (React runs the mount effect once): the startup
\* loads, submissions and disposals in every interleaving.
Init == AppInit /\ strictMode = FALSE /\ BadgeIdle
Next == Startup(FALSE) \/ EditRequired \/ Submission \/ Disposal \/ Timers
Spec == Init /\ [][Next]_vars

\* The production build, the form in full: every field edited in every
\* interleaving with the startup loads and the submissions.
NextForm == Startup(FALSE) \/ EditRequired \/ EditOther \/ Submission \/ Timers
SpecForm == Init /\ [][NextForm]_vars

\* The development build under <StrictMode> (React runs the mount effect,
\* its cleanup and the effect again): the startup loads and the form.
InitDev == AppInit /\ strictMode = TRUE /\ BadgeIdle
NextDev == Startup(TRUE) \/ EditRequired \/ EditOther
SpecDev == InitDev /\ [][NextDev]_vars

\* The production build where every timer that was set fires in the end: the
\* event loop runs a setTimeout callback once its delay has passed.
FairSpec == Spec /\ WF_vars(MessageTimeout) /\ WF_vars(ErrorTimeout)

\* the rendered table alone, as the clock advances
InitBadge == BadgeInit /\ AppInit /\ strictMode = FALSE
NextBadge == Tick
SpecBadge == InitBadge /\ [][NextBadge]_vars

(* ------------------------------ claims -------------------------------- *)
Tiers ==
  [expired |-> "bg-red-600 text-white", critical |-> "bg-red-500 text-white",
   warning |-> "bg-yellow-400 text-black", ok |-> "bg-green-500 text-white"]

\* C1: whatever the day difference d of the rendered row, its badge is the
\* expired one iff d < 0, the critical one iff 0 <= d <= 3, the warning one
\* iff 4 <= d <= 7 and the ok one iff d > 7 (so -1, 0, 3, 4, 7, 8 give
\* expired, critical, critical, warning, warning, ok), and its text is the
\* "expired" label iff d < 0 and the day count d otherwise.
C1_Urgency ==
  LET d == shown.diff
  IN /\ shown.class = Tiers.expired <=> d < 0
     /\ shown.class = Tiers.critical <=> (0 <= d /\ d <= 3)
     /\ shown.class = Tiers.warning <=> (4 <= d /\ d <= 7)
     /\ shown.class = Tiers.ok <=> d > 7
     /\ d = -1 => shown.class = Tiers.expired
     /\ d \in {0, 3} => shown.class = Tiers.critical
     /\ d \in {4, 7} => shown.class = Tiers.warning
     /\ d = 8 => shown.class = Tiers.ok
     /\ shown.text.label = "Expire" <=> d < 0
     /\ d >= 0 => shown.text = [label |-> "j", n |-> d]

\* a row rendered after the clock has moved, three days before its expiry
C1_Witness ==
  now > 0 /\ shown.diff = 3 /\ shown.class = Tiers.critical /\ shown.text.n = 3

\* the name is empty or made of spaces only, or no date is set
Blank(name) == \A i \in 1..Len(name) : name[i] = " "
InvalidDraft(f) == Blank(f.name) \/ f.dlc = ""

\* C2: an onSubmit that runs with a blank name or with no dlc issues no
\* request (no call of the client gets under way: no POST /items, no list
\* fetch) and ends with the validation error as the error message.
C2_InvalidSubmitStaysLocal ==
  [][(OnSubmit /\ InvalidDraft(form)) =>
       /\ sub' = sub /\ lists' = lists /\ refs' = refs /\ disp' = disp
       /\ error' = (IF Blank(form.name) THEN "Nom requis" ELSE "DLC requise")
       /\ message' = NULL]_vars

\* a submission of a name of spaces has ended with its validation error
C2_Witness ==
  /\ form.name = <<" ">> /\ form.dlc # ""
  /\ error = "Nom requis" /\ nOps > 0 /\ sub = NoSub

\* C3: when the POST /items of a submission is answered with success, name
\* and dlc become empty, category, location and perishable keep their value
\* and the list is not touched (the draft is not appended); when the GET
\* /items that follows is answered with success, the list is its body.
C3_SuccessResetsAndRefreshes ==
  [][/\ \A r \in PostResponses :
          (SubmitPostSettle(r) /\ ~Failed(r)) =>
            /\ form'.name = <<>> /\ form'.dlc = ""
            /\ form'.category = form.category
            /\ form'.location = form.location
            /\ form'.perishable = form.perishable
            /\ items' = items
            /\ sub'.refresh = sub.refresh + 1
     /\ \A r \in GetResponses(ItemLists) :
          (SubmitRefreshSettle(r) /\ ~Failed(r)) => items' = r.body]_vars

\* a submission has succeeded and its refresh has replaced a list of three
\* items by the empty one; the fields the user chose are still there
C3_Witness ==
  /\ message = "Article ajoute" /\ sub = NoSub /\ ~loading
  /\ form.name = <<>> /\ form.dlc = ""
  /\ form.category = "Produce" /\ form.location = "Pantry"
  /\ form.perishable = FALSE
  /\ lists[1].pc = "done" /\ 3 \in fetched /\ items = Arr(<<>>)

OkPost == Resp(TRUE, TRUE, TRUE, ErrObj, "{}")

\* C4: when the call of disposeItem(k, outcome) is answered with success,
\* the list becomes the list without the items of id k, the others in their
\* order, and no list fetch is issued; when the call fails (non-success
\* status, or no response), the list is unchanged and the error message set.
C4_DisposeRemovesIffSuccess ==
  [][\A k \in ItemIds, o \in Outcomes, r \in PostResponses :
       DisposeSettle(k, o, r) =>
         IF Failed(r)
         THEN items' = items /\ error' # NULL
         ELSE /\ k \notin Ids(items')
              /\ items' = Arr(SelectSeq(items.v, LAMBDA it : it.id # k))
              /\ \A m \in Effects : lists'[m].pc = lists[m].pc
              /\ sub'.post = sub.post /\ sub'.refresh = sub.refresh]_vars

\* item 1 has been disposed of as lost: items 3 and 2 are left, in order
C4_Witness ==
  /\ items = Arr(<<Item(3), Item(2)>>) /\ message = "Marque perdu"
  /\ disp = NoDisp /\ error = NULL

\* C5: when a reference load whose two requests succeeded is applied, a
\* category (a location) that is not empty at that moment keeps its value, and one that changes was empty
\* and becomes the first entry of the loaded vocabulary.
C5_SeedOnlyWhenEmpty ==
  [][\A m \in Effects :
       (refs[m].pc = "await" /\ refs'[m].pc = "done" /\ ~refs'[m].failed) =>
         /\ form.category # "" => form'.category = form.category
         /\ form.location # "" => form'.location = form.location
         /\ form'.category # form.category =>
              form'.category = categories'.v[1]
         /\ form'.location # form.location =>
              form'.location = locations'.v[1]]_vars

\* C6: a step of a fetchRefs call one of whose requests has failed
\* (transport failure or non-2xx status) leaves categories, locations and
\* the form as they are.
C6_AllOrNothing ==
  [][\A m \in Effects :
       (refs'[m] # refs[m] /\ refs'[m].failed) =>
         /\ categories' = categories
         /\ locations' = locations
         /\ form' = form]_vars

\* C7: no operation has failed with nobody catching its error while the
\* error message is unset.
C7_FailuresCaught == ~(unhandled # {} /\ error = NULL)

\* C8: a success message that is set is cleared in the end, and so is an
\* error message, as long as the view is there.
C8_FeedbackCleared ==
  /\ (message # NULL /\ ~Crashed) ~> (message = NULL \/ Crashed)
  /\ (error # NULL /\ ~Crashed) ~> (error = NULL \/ Crashed)

\* C8 for dlc-front alone, where each message is set with its timer
C8_ClearedInDlcFront == copy = "dlc-front" => C8_FeedbackCleared

\* C9: loading is true exactly while an onSubmit call is suspended; at most
\* one is; while loading, the form cannot be submitted and every row's
\* disposal buttons still work.
C9_LoadingIffSubmitting ==
  /\ loading <=> sub.post + sub.refresh > 0
  /\ sub.post + sub.refresh <= 1
  /\ loading => ~ENABLED OnSubmit
  /\ (loading /\ Mounted /\ ~Crashed /\ nOps < MaxOps) =>
       \A k \in Ids(items), o \in Outcomes : ENABLED DisposeItem(k, o)

\* a disposal has gone through while a submission is suspended
C9_Witness ==
  /\ loading /\ sub.post = 1 /\ message = "Marque perdu"
  /\ items = Arr(<<Item(3), Item(2)>>)

\* a GET /items has settled in this step
ListSettled ==
  \/ \E m \in Effects : lists[m].pc = "await" /\ lists'[m].pc # "await"
  \/ sub'.refresh < sub.refresh

\* C10: every item of the list was returned by a list fetch; an item leaves
\* the list (the list staying a list) only in the step its disposal succeeds; a list fetch that was
\* under way when the disposal of k succeeded does not bring k back.
C10_LeavesOnlyByDisposal ==
  [][/\ Ids(items') \subseteq fetched'
     /\ \A k \in ItemIds :
          (k \in Ids(items) /\ k \notin Ids(items') /\ IsArr(items')) =>
            \E o \in Outcomes : DisposeSettle(k, o, OkPost)
     /\ \A m \in Effects :
          (lists[m].pc = "await" /\ lists'[m].pc = "done") =>
            Ids(items') \cap lists[m].gone = {}
     /\ sub'.refresh < sub.refresh => Ids(items') \cap sub.gone = {}]_vars

\* C10 as amended: every item of the list was returned by a list fetch; an
\* item leaves the list only when its disposal succeeds or when a list fetch
\* settles and replaces the list by a result without it; an item enters the
\* list only when a list fetch settles and replaces the list by its result.
C10_ListFollowsFetchAndDisposal ==
  [][/\ Ids(items') \subseteq fetched'
     /\ \A k \in ItemIds :
          (k \in Ids(items) /\ k \notin Ids(items')) =>
            \/ \E o \in Outcomes : DisposeSettle(k, o, OkPost)
            \/ ListSettled /\ items' = lastData'
     /\ \A k \in ItemIds :
          (k \notin Ids(items) /\ k \in Ids(items')) =>
            ListSettled /\ items' = lastData']_vars

\* a disposal has succeeded, and the refresh of a submission that was under
\* way has since put all three items into the list again
C10_Witness ==
  /\ message \in {"Marque perdu", "Marque consomme"}
  /\ items = Arr(<<Item(3), Item(1), Item(2)>>)
  /\ nOps = 2 /\ sub = NoSub /\ disp = NoDisp /\ lists[1].pc = "done"

\* C11: the success message and the error message are never both set.
C11_OneFeedbackAtATime == ~(message # NULL /\ error # NULL)

====
